---- MODULE Spec2Model ----
(***************************************************************************)
(* Model of the x402 streaming client (src/src/index.ts): startup and      *)
(* schema negotiation in main(), the WebSocket open / message / close /    *)
(* error handlers, and the two renewal paths (http and inband).  Every     *)
(* 'message' event starts its own invocation of the async handler; an      *)
(* invocation is suspended at each await and resumed by a later step.      *)
(***************************************************************************)
EXTENDS Integers, Sequences, FiniteSets, TLC

VARIABLES env, pc, exitCode, schemaRequests, schemaResp, wsCreated, wsState,
          currentToken, sent, received, dispatched, handlers, warnings,
          fnArg, fnResult

vars == <<env, pc, exitCode, schemaRequests, schemaResp, wsCreated, wsState,
          currentToken, sent, received, dispatched, handlers, warnings,
          fnArg, fnResult>>

\* ---------------------------------------------------------------- bounds
MaxMsgs == 2

MaxParams == 2

MaxHandled == 2

MaxMints == 2

MaxAccounts == 2

\* ------------------------------------------------------------ JS values
Undefined == [kind |-> "undefined"]

Str(s) == [typeof |-> "string", val |-> s]

Num(s) == [typeof |-> "number", val |-> s]

Obj(f) == [kind |-> "object", fields |-> f]

Field(value, name) ==
  IF name \in DOMAIN value.fields THEN value.fields[name]
  ELSE [typeof |-> "undefined", val |-> ""]

\* ------------------------------------------------------- parsing helpers
safeJsonParse(raw) == IF raw.wellFormed THEN raw.value ELSE Undefined

isRecord(value) == value.kind = "object"

\* Variant: anything but "http" selects the in-band strategy.
parseRenewMethodDefaultInband(value) == IF value = "http" THEN "http" ELSE "inband"

parseRenewMethod(value) == IF value = "inband" THEN "inband" ELSE "http"

\* ------------------------------------------------------------ type guards
isWsStatusEvent(value) ==
  /\ isRecord(value)
  /\ Field(value, "type") = Str("status")
  /\ Field(value, "now").typeof = "string"

isWsTransactionEvent(value) ==
  /\ isRecord(value)
  /\ Field(value, "type") = Str("transaction")
  /\ Field(value, "signature").typeof = "string"

isWsAccountEvent(value) ==
  /\ isRecord(value)
  /\ Field(value, "type") = Str("account")
  /\ Field(value, "pubkey").typeof = "string"

\* Variant: the slot field is not checked.
isWsSlotEventTypeOnly(value) ==
  /\ isRecord(value)
  /\ Field(value, "type") = Str("slot")

isWsSlotEvent(value) ==
  /\ isRecord(value)
  /\ Field(value, "type") = Str("slot")
  /\ Field(value, "slot").typeof = "number"

isWsTickerEvent(value) ==
  /\ isRecord(value)
  /\ Field(value, "type") = Str("ticker")
  /\ Field(value, "baseMint").typeof = "string"

isWsLeaderboardEvent(value) ==
  /\ isRecord(value)
  /\ Field(value, "type") = Str("leaderboard")
  /\ Field(value, "items").typeof = "array"

X402Ops == {"hello", "renewal_reminder", "payment_required", "renewed", "error"}

\* Variant: lifecycle events are only recognized while no invocation is
\* suspended.
isWsX402EventWhenIdle(value) ==
  /\ isRecord(value)
  /\ Field(value, "op").typeof = "string"
  /\ Field(value, "op").val \in X402Ops
  /\ \A i \in 1..Len(handlers) : handlers[i].stage = "done"

isWsX402Event(value) ==
  /\ isRecord(value)
  /\ Field(value, "op").typeof = "string"
  /\ Field(value, "op").val \in X402Ops

\* Variant: the lifecycle guard is tried before the data guards.
ClassifyLifecycleFirst(decoded) ==
  IF isWsX402Event(decoded) THEN Field(decoded, "op").val
  ELSE IF isWsStatusEvent(decoded) THEN "status"
  ELSE IF isWsTransactionEvent(decoded) THEN "transaction"
  ELSE IF isWsAccountEvent(decoded) THEN "account"
  ELSE IF isWsSlotEvent(decoded) THEN "slot"
  ELSE IF isWsTickerEvent(decoded) THEN "ticker"
  ELSE IF isWsLeaderboardEvent(decoded) THEN "leaderboard"
  ELSE "invalid shape"

\* The branch of the 'message' handler a decoded value takes.
Classify(decoded) ==
  IF isWsStatusEvent(decoded) THEN "status"
  ELSE IF isWsTransactionEvent(decoded) THEN "transaction"
  ELSE IF isWsAccountEvent(decoded) THEN "account"
  ELSE IF isWsSlotEvent(decoded) THEN "slot"
  ELSE IF isWsTickerEvent(decoded) THEN "ticker"
  ELSE IF isWsLeaderboardEvent(decoded) THEN "leaderboard"
  ELSE IF ~isWsX402Event(decoded) THEN "invalid shape"
  ELSE Field(decoded, "op").val

\* Variant: every lifecycle event enters the renewal branch.
isRenewalTriggerAnyOp(outcome) == outcome \in X402Ops

isRenewalTrigger(outcome) == outcome \in {"renewal_reminder", "payment_required"}

\* -------------------------------------------------------------- schema path
Null == "null"

\* The configured schema path as text: an optional scheme and host, then the
\* path and the query as sequences of tokens ("/" is a token of its own).
\* hostOk tells whether new URL() accepts the text.
SchemaPath(scheme, hostOk, path, query) ==
  [scheme |-> scheme, hostOk |-> hostOk, path |-> path, query |-> query]

Host == "x402.atomicstream.net"

\* The text of the schema path, token by token.
PathText(schemaPath) ==
  (IF schemaPath.scheme = "" THEN << >> ELSE <<schemaPath.scheme, Host>>)
    \o schemaPath.path \o schemaPath.query

\* String.startsWith('http://') or startsWith('https://'): case-sensitive.
startsWithHttp(schemaPath) == schemaPath.scheme \in {"http://", "https://"}

\* new URL(text): schemes are matched without regard to case.
urlParses(schemaPath) == schemaPath.scheme # "" /\ schemaPath.hostOk

\* URL.pathname: the path without the query, "/" when the path is empty.
pathname(schemaPath) == IF schemaPath.path = << >> THEN <<"/">> ELSE schemaPath.path

\* The regular expression ^\/(v1|v2)\/ on a text.
matchVersion(text) ==
  IF Len(text) >= 3 /\ text[1] = "/" /\ text[2] \in {"v1", "v2"} /\ text[3] = "/"
  THEN text[2] ELSE Null

parseSchemaVersion(schemaPath) ==
  LET rawPath == IF ~startsWithHttp(schemaPath) THEN PathText(schemaPath)
                 ELSE IF urlParses(schemaPath) THEN pathname(schemaPath)
                 ELSE PathText(schemaPath)
      match == matchVersion(rawPath)
  IN IF match # Null THEN match ELSE "v1"

\* new URL(X402_SCHEMA_PATH, httpBase) in requestWs402Schema throws on an
\* absolute URL it cannot parse; a relative path resolves against the base.
schemaUrlParses(schemaPath) == schemaPath.scheme = "" \/ schemaPath.hostOk

HTTP_BASE == "https://x402.atomicstream.net"

DefaultSchemaPath ==
  SchemaPath("", TRUE, <<"/", "v1", "/", "schema", "/", "stream", "/", "mempool-sniff">>, << >>)

\* The URL new URL(`/${version}/renew/stream/${streamId}`, httpBase) gives
\* for a base without a path.
buildRenewUrl(httpBase, streamId, version) ==
  [origin |-> httpBase,
   path |-> <<"/", version, "/", "renew", "/", "stream", "/", streamId>>]

\* ---------------------------------------------------------- configuration
PrivateKeys == {"undefined", "", "key"}

RenewMethodValues == {"undefined", "http", "inband"}

WatchLists == {<< >>, <<"w1">>}

EventFormats == {"raw", "enhanced"}

Envs ==
  [SVM_PRIVATE_KEY : PrivateKeys, RENEW_METHOD : RenewMethodValues,
   WATCH_ACCOUNTS : WatchLists, WATCH_PROGRAMS : WatchLists,
   EVENT_FORMAT : EventFormats, X402_SCHEMA_PATH : {DefaultSchemaPath}]

RENEW_METHOD == parseRenewMethod(env.RENEW_METHOD)

INCLUDE_ACCOUNTS == TRUE

INCLUDE_TOKEN_BALANCE_CHANGES == TRUE

INCLUDE_LOGS == FALSE

INCLUDE_INSTRUCTIONS == FALSE

FILTER_TOKEN_BALANCES == FALSE

\* ------------------------------------------------------------------ tokens
NoToken == "none"

SchemaToken == "t0"

RenewedTokens == {"t1", "t2"}

\* ------------------------------------------------------------ URL helpers
\* A websocket endpoint: whether new URL() accepts it, and its query
\* parameters in order (name, decoded value).
Param(name, value) == [name |-> name, value |-> value]

Url(parseable, params) == [parseable |-> parseable, params |-> params]

WsUrls ==
  {Url(TRUE, <<Param("t", SchemaToken)>>), Url(TRUE, <<Param("t", "")>>),
   Url(TRUE, << >>), Url(FALSE, <<Param("t", SchemaToken)>>)}

\* URLSearchParams.get: the value of the first parameter of that name, or null.
RECURSIVE searchParamsGet(_, _)
searchParamsGet(params, name) ==
  IF params = << >> THEN Null
  ELSE IF Head(params).name = name THEN Head(params).value
  ELSE searchParamsGet(Tail(params), name)

\* Variant: the token is read from another parameter.
parseTokenFromWsUrlOtherName(wsUrl) ==
  IF ~wsUrl.parseable THEN ""
  ELSE LET t == searchParamsGet(wsUrl.params, "token")
       IN IF t = Null THEN "" ELSE t

parseTokenFromWsUrl(wsUrl) ==
  IF ~wsUrl.parseable THEN ""
  ELSE LET t == searchParamsGet(wsUrl.params, "t")
       IN IF t = Null THEN "" ELSE t

\* ---------------------------------------------------------- HTTP responses
HttpOk(status) == status >= 200 /\ status <= 299

NoBody == [json |-> FALSE, value |-> Undefined]

Body(v) == [json |-> TRUE, value |-> v]

\* Bodies of the schema endpoint: a well-shaped schema per endpoint URL, a
\* schema of another protocol, and a body that is not JSON.
SchemaValue(protocol, wsUrl) ==
  [kind |-> "object", protocol |-> protocol, version |-> "1",
   websocketEndpoint |-> wsUrl, streamId |-> "stream-1"]

SchemaResponses ==
  {[status |-> 200, body |-> Body(SchemaValue("ws402", u))] : u \in WsUrls}
    \cup {[status |-> 200, body |-> Body(SchemaValue("other", u))] :
            u \in {Url(TRUE, <<Param("t", SchemaToken)>>)}}
    \cup {[status |-> 200, body |-> NoBody],
          [status |-> 402, body |-> NoBody],
          [status |-> 500, body |-> NoBody]}

\* No response has been received yet.
NoResponse == [status |-> 0, body |-> NoBody]

isWs402StreamSchema(value) ==
  /\ isRecord(value)
  /\ value.protocol = "ws402"
  /\ value.version = "1"

RenewValue(token) ==
  Obj([token |-> Str(token), expiresAt |-> Str("later"), sliceSeconds |-> Num("60")])

RenewResponses ==
  {[status |-> 200, body |-> Body(RenewValue(t))] : t \in RenewedTokens}
    \cup {[status |-> 200, body |-> Body(Obj([token |-> Str("t1")]))],
          [status |-> 200, body |-> NoBody],
          [status |-> 500, body |-> NoBody]}

isRenewResponse(value) ==
  /\ isRecord(value)
  /\ Field(value, "token").typeof = "string"
  /\ Field(value, "expiresAt").typeof = "string"
  /\ Field(value, "sliceSeconds").typeof = "number"

\* Payment-required bodies of the in-band challenge, as decoded by
\* getPaymentRequiredResponse.
PaymentRequiredValue(isArray, accepts) ==
  [kind |-> "object", acceptsIsArray |-> isArray, accepts |-> accepts]

ChallengeResponses ==
  {[status |-> 402, body |-> Body(PaymentRequiredValue(TRUE, a))] :
     a \in {<< >>, <<"req1">>, <<"req1", "req2">>}}
    \cup {[status |-> 402, body |-> Body(PaymentRequiredValue(FALSE, << >>))],
          [status |-> 402, body |-> NoBody],
          [status |-> 200, body |-> NoBody]}

\* Variant: an empty accepts list is let through.
isPaymentRequiredAnyList(value) ==
  /\ isRecord(value)
  /\ value.acceptsIsArray

isPaymentRequired(value) ==
  /\ isRecord(value)
  /\ value.acceptsIsArray
  /\ Len(value.accepts) > 0

\* ------------------------------------------------------ outbound messages
SetOptionsMsg(e) ==
  [op |-> "setOptions",
   includeAccounts |-> INCLUDE_ACCOUNTS,
   includeTokenBalanceChanges |-> INCLUDE_TOKEN_BALANCE_CHANGES,
   includeLogs |-> INCLUDE_LOGS,
   includeInstructions |-> INCLUDE_INSTRUCTIONS,
   eventFormat |-> e.EVENT_FORMAT,
   filterTokenBalances |-> FILTER_TOKEN_BALANCES]

SetAccountsMsg(e) == [op |-> "setAccounts", accounts |-> e.WATCH_ACCOUNTS]

SetProgramsMsg(e) == [op |-> "setPrograms", programs |-> e.WATCH_PROGRAMS]

GetStateMsg == [op |-> "getState"]

RenewTokenMsg(token) == [op |-> "renew_token", token |-> token]

RenewInbandMsg(requirements, payload) ==
  [op |-> "renew_inband", paymentRequirements |-> requirements,
   paymentPayload |-> payload]

\* Variant: getState is sent before the watchlists.
OpenMessagesStateFirst(e) ==
  <<SetOptionsMsg(e), GetStateMsg>>
    \o (IF Len(e.WATCH_ACCOUNTS) > 0 THEN <<SetAccountsMsg(e)>> ELSE << >>)
    \o (IF Len(e.WATCH_PROGRAMS) > 0 THEN <<SetProgramsMsg(e)>> ELSE << >>)

\* What the 'open' handler passes to ws.send, in order.
OpenMessages(e) ==
  <<SetOptionsMsg(e)>>
    \o (IF Len(e.WATCH_ACCOUNTS) > 0 THEN <<SetAccountsMsg(e)>> ELSE << >>)
    \o (IF Len(e.WATCH_PROGRAMS) > 0 THEN <<SetProgramsMsg(e)>> ELSE << >>)
    \o <<GetStateMsg>>

\* Variant: the warning is raised when either watchlist is empty.
OpenWarningsEitherEmpty(e) ==
  IF Len(e.WATCH_ACCOUNTS) = 0 \/ Len(e.WATCH_PROGRAMS) = 0
  THEN <<"no watchlists configured">> ELSE << >>

OpenWarnings(e) ==
  IF Len(e.WATCH_ACCOUNTS) = 0 /\ Len(e.WATCH_PROGRAMS) = 0
  THEN <<"no watchlists configured">> ELSE << >>

\* ------------------------------------------------------- inbound messages
Raw(v) == [wellFormed |-> TRUE, value |-> v]

NotJson == [wellFormed |-> FALSE, value |-> Undefined]

SessionMessages ==
  {Raw(Obj([type |-> Str("status"), now |-> Str("ts")])),
   Raw(Obj([op |-> Str("renewal_reminder")])),
   Raw(Obj([op |-> Str("payment_required")])),
   Raw(Obj([op |-> Str("hello")])),
   Raw(Obj([op |-> Str("error")])),
   NotJson}

\* ------------------------------------------- handler invocations (async)
\* One record per 'message' event: the await the invocation is suspended
\* at, the token its renewal request carries, and what it has received.
Handler(stage, oldToken, data) ==
  [stage |-> stage, oldToken |-> oldToken, data |-> data]

Returned == Handler("done", NoToken, Undefined)

Sleeping == Handler("sleep", NoToken, Undefined)

RenewalStages == {"httpFetch", "httpJson", "inbandFetch", "inbandJson", "createPayload"}

PendingRenewals == {i \in 1..Len(handlers) : handlers[i].stage \in RenewalStages}

\* ----------------------------------------------------------------- startup
\* Nothing has been applied to an argument.
NoArg == [fn |-> "none"]

NoResult == [fn |-> "none"]

\* The state of the process before main() runs.
Start ==
  /\ pc = "start"
  /\ exitCode = -1
  /\ schemaRequests = 0
  /\ schemaResp = NoResponse
  /\ wsCreated = 0
  /\ wsState = "none"
  /\ currentToken = NoToken
  /\ sent = << >>
  /\ received = << >>
  /\ dispatched = << >>
  /\ handlers = << >>
  /\ warnings = << >>

Init ==
  /\ env \in Envs
  /\ fnArg = NoArg
  /\ fnResult = NoResult
  /\ pc = "start"
  /\ exitCode = -1
  /\ schemaRequests = 0
  /\ schemaResp = NoResponse
  /\ wsCreated = 0
  /\ wsState = "none"
  /\ currentToken = NoToken
  /\ sent = << >>
  /\ received = << >>
  /\ dispatched = << >>
  /\ handlers = << >>
  /\ warnings = << >>

\* Variant: the key check is missing.
createClientNoKeyCheck(key) == "client"

createClient(key) == IF key \in {"undefined", ""} THEN "throw" ELSE "client"

Throw == [ok |-> FALSE, token |-> NoToken]

\* Variant: the empty-token check is missing.
requestWs402SchemaAnyToken(resp) ==
  IF ~HttpOk(resp.status) THEN Throw
  ELSE IF ~resp.body.json THEN Throw
  ELSE IF ~isWs402StreamSchema(resp.body.value) THEN Throw
  ELSE [ok |-> TRUE, token |-> parseTokenFromWsUrl(resp.body.value.websocketEndpoint)]

\* Result of requestWs402Schema on the response the payment-aware fetch returns.
requestWs402Schema(resp) ==
  IF ~HttpOk(resp.status) THEN Throw
  ELSE IF ~resp.body.json THEN Throw
  ELSE IF ~isWs402StreamSchema(resp.body.value) THEN Throw
  ELSE LET token == parseTokenFromWsUrl(resp.body.value.websocketEndpoint)
       IN IF token = "" THEN Throw ELSE [ok |-> TRUE, token |-> token]

\* main() up to its first network call: createClient, then the schema GET,
\* unless the schema URL cannot be built.
MainStart ==
  /\ pc = "start"
  /\ IF \/ createClient(env.SVM_PRIVATE_KEY) = "throw"
        \/ ~schemaUrlParses(env.X402_SCHEMA_PATH)
     THEN pc' = "rejected" /\ UNCHANGED schemaRequests
     ELSE pc' = "schemaFetch" /\ schemaRequests' = schemaRequests + 1
  /\ UNCHANGED <<fnArg, fnResult, env, exitCode, schemaResp, wsCreated, wsState, currentToken,
                 sent, received, dispatched, handlers, warnings>>

\* The payment-aware fetch answers a first 402 by paying and retrying once.
SchemaPayAndRetry ==
  /\ pc = "schemaFetch"
  /\ pc' = "schemaPaidFetch"
  /\ schemaRequests' = schemaRequests + 1
  /\ UNCHANGED <<fnArg, fnResult, env, exitCode, schemaResp, wsCreated, wsState, currentToken,
                 sent, received, dispatched, handlers, warnings>>

\* The fetch itself rejects (transport failure, payment could not be made).
SchemaFetchRejects ==
  /\ pc \in {"schemaFetch", "schemaPaidFetch"}
  /\ pc' = "rejected"
  /\ UNCHANGED <<fnArg, fnResult, env, exitCode, schemaRequests, schemaResp, wsCreated, wsState,
                 currentToken, sent, received, dispatched, handlers, warnings>>

\* requestWs402Schema resumes with the final response; on success main()
\* stores the token and constructs the WebSocket.
SchemaResponse(resp) ==
  /\ pc \in {"schemaFetch", "schemaPaidFetch"}
  /\ resp.status = 402 => pc = "schemaPaidFetch"
  /\ LET schema == requestWs402Schema(resp)
     IN IF ~schema.ok
        THEN /\ pc' = "rejected"
             /\ UNCHANGED <<currentToken, wsCreated, wsState>>
        ELSE /\ pc' = "running"
             /\ currentToken' = schema.token
             /\ wsCreated' = wsCreated + 1
             /\ wsState' = "connecting"
  /\ schemaResp' = resp
  /\ UNCHANGED <<fnArg, fnResult, env, exitCode, schemaRequests, sent, received, dispatched,
                 handlers, warnings>>

\* main().catch: log the fatal error and exit with status 1.
MainCatch ==
  /\ pc = "rejected"
  /\ pc' = "exited"
  /\ exitCode' = 1
  /\ UNCHANGED <<fnArg, fnResult, env, schemaRequests, schemaResp, wsCreated, wsState,
                 currentToken, sent, received, dispatched, handlers, warnings>>

\* --------------------------------------------------------- socket events
WsOpen ==
  /\ wsState = "connecting"
  /\ wsState' = "open"
  /\ sent' = sent \o OpenMessages(env)
  /\ warnings' = warnings \o OpenWarnings(env)
  /\ UNCHANGED <<fnArg, fnResult, env, pc, exitCode, schemaRequests, schemaResp, wsCreated, currentToken,
                 received, dispatched, handlers>>

\* ws.on('error'): log only.  The socket emits 'close' afterwards.
OnError ==
  /\ wsState' = "errored"
  /\ warnings' = Append(warnings, "ws error")
  /\ UNCHANGED <<fnArg, fnResult, env, pc, exitCode, schemaRequests, schemaResp, wsCreated, currentToken,
                 sent, received, dispatched, handlers>>

WsError ==
  /\ wsState \in {"connecting", "open"}
  /\ OnError

\* Variant: the close handler reconnects.
OnCloseReconnects ==
  /\ wsState' = "connecting"
  /\ UNCHANGED <<fnArg, fnResult, env, pc, exitCode, schemaRequests, schemaResp, wsCreated, currentToken,
                 sent, received, dispatched, handlers, warnings>>

\* ws.on('close'): log only.
OnClose ==
  /\ wsState' = "closed"
  /\ UNCHANGED <<fnArg, fnResult, env, pc, exitCode, schemaRequests, schemaResp, wsCreated, currentToken,
                 sent, received, dispatched, handlers, warnings>>

WsClose ==
  /\ wsState \in {"open", "errored"}
  /\ OnClose

\* ------------------------------------------------------ 'message' handler
\* The renewal branch up to its first await: the request is issued with the
\* token that is current when the message is handled.
StartRenewal(method, token) ==
  IF method = "http" THEN Handler("httpFetch", token, Undefined)
  ELSE Handler("inbandFetch", token, Undefined)

\* Variant: a payload of invalid shape is not returned on, it falls through
\* to the renewal branch.
OnMessageInvalidFallsThrough(raw) ==
  LET decoded == safeJsonParse(raw)
      outcome == Classify(decoded)
  IN /\ received' = Append(received, raw)
     /\ dispatched' = Append(dispatched, outcome)
     /\ warnings' = IF outcome = "invalid shape"
                    THEN Append(warnings, "ws event ignored: invalid shape")
                    ELSE warnings
     /\ handlers' = Append(handlers,
                           IF isRenewalTrigger(outcome) \/ outcome = "invalid shape"
                           THEN StartRenewal(RENEW_METHOD, currentToken)
                           ELSE Returned)
     /\ UNCHANGED <<currentToken, sent, wsState>>

\* One invocation of the handler, run to its return or to its first await.
OnMessage(raw) ==
  LET decoded == safeJsonParse(raw)
      outcome == Classify(decoded)
  IN /\ received' = Append(received, raw)
     /\ dispatched' = Append(dispatched, outcome)
     /\ warnings' = IF outcome = "invalid shape"
                    THEN Append(warnings, "ws event ignored: invalid shape")
                    ELSE warnings
     /\ handlers' = Append(handlers,
                           IF isRenewalTrigger(outcome)
                           THEN StartRenewal(RENEW_METHOD, currentToken)
                           ELSE Returned)
     /\ UNCHANGED <<currentToken, sent, wsState>>

WsMessage(raw) ==
  /\ wsState = "open"
  /\ Len(received) < MaxMsgs
  /\ OnMessage(raw)
  /\ UNCHANGED <<fnArg, fnResult, env, pc, exitCode, schemaRequests, schemaResp, wsCreated>>

\* The 'renew error' warnings, by the message of the error caught.
RenewFailed == "renew error: renew failed (status not ok)"

RenewShapeInvalid == "renew error: renew response shape invalid"

ChallengeExpected == "renew error: expected 402 challenge"

PaymentRequiredInvalid == "renew error: payment-required response shape invalid"

PayloadFailed == "renew error: payment payload could not be created"

RenewErrors ==
  {RenewFailed, RenewShapeInvalid, ChallengeExpected, PaymentRequiredInvalid, PayloadFailed}

\* Variant: the catch block gives the connection up.
RenewCatchClosing(i, message) ==
  /\ handlers' = [handlers EXCEPT ![i] = Sleeping]
  /\ warnings' = Append(warnings, message)
  /\ wsState' = "closed"
  /\ UNCHANGED <<currentToken, sent>>

\* The catch block of the renewal branch: warn, then sleep(1000).
RenewCatch(i, message) ==
  /\ handlers' = [handlers EXCEPT ![i] = Sleeping]
  /\ warnings' = Append(warnings, message)
  /\ UNCHANGED <<currentToken, sent, wsState>>

\* Variant: the message is sent before the token is stored.
HttpRenewSuccessSendsOld(i, renewed) ==
  /\ sent' = Append(sent, RenewTokenMsg(currentToken))
  /\ currentToken' = Field(renewed, "token").val
  /\ handlers' = [handlers EXCEPT ![i] = Returned]
  /\ UNCHANGED <<wsState, warnings>>

\* The statements after a successful httpRenew: store the token, send it.
HttpRenewSuccess(i, renewed) ==
  /\ currentToken' = Field(renewed, "token").val
  /\ sent' = Append(sent, RenewTokenMsg(currentToken'))
  /\ handlers' = [handlers EXCEPT ![i] = Returned]
  /\ UNCHANGED <<wsState, warnings>>

\* httpRenew resumes after the fetch: a non-ok status throws.
HttpFetchResolves(i, resp) ==
  /\ handlers[i].stage = "httpFetch"
  /\ IF ~HttpOk(resp.status)
     THEN RenewCatch(i, RenewFailed)
     ELSE /\ handlers' = [handlers EXCEPT ![i] =
                            Handler("httpJson", handlers[i].oldToken, resp.body)]
          /\ UNCHANGED <<currentToken, sent, wsState, warnings>>
  /\ UNCHANGED <<fnArg, fnResult, env, pc, exitCode, schemaRequests, schemaResp, wsCreated, received, dispatched>>

\* httpRenew resumes after resp.json(): a malformed body throws.
HttpBodyRead(i) ==
  /\ handlers[i].stage = "httpJson"
  /\ LET body == handlers[i].data
     IN IF body.json /\ isRenewResponse(body.value)
        THEN HttpRenewSuccess(i, body.value)
        ELSE RenewCatch(i, RenewShapeInvalid)
  /\ UNCHANGED <<fnArg, fnResult, env, pc, exitCode, schemaRequests, schemaResp, wsCreated, received, dispatched>>

\* inbandRenewChallenge resumes after the plain fetch: non-402 throws.
InbandFetchResolves(i, resp) ==
  /\ handlers[i].stage = "inbandFetch"
  /\ IF resp.status # 402
     THEN RenewCatch(i, ChallengeExpected)
     ELSE /\ handlers' = [handlers EXCEPT ![i] =
                            Handler("inbandJson", handlers[i].oldToken, resp.body)]
          /\ UNCHANGED <<currentToken, sent, wsState, warnings>>
  /\ UNCHANGED <<fnArg, fnResult, env, pc, exitCode, schemaRequests, schemaResp, wsCreated, received, dispatched>>

\* inbandRenewChallenge resumes after resp.json(): the decoded body must be
\* a payment-required object with a non-empty accepts list.
InbandBodyRead(i) ==
  /\ handlers[i].stage = "inbandJson"
  /\ LET body == handlers[i].data
         paymentRequired == IF body.json THEN body.value ELSE Undefined
     IN IF isPaymentRequired(paymentRequired)
        THEN /\ handlers' = [handlers EXCEPT ![i] =
                               Handler("createPayload", handlers[i].oldToken, paymentRequired)]
             /\ UNCHANGED <<currentToken, sent, wsState, warnings>>
        ELSE RenewCatch(i, PaymentRequiredInvalid)
  /\ UNCHANGED <<fnArg, fnResult, env, pc, exitCode, schemaRequests, schemaResp, wsCreated, received, dispatched>>

\* Variant: after sending, the invocation waits for the renewed event.
InbandSendAwaitsRenewed(i, paymentRequired, paymentPayload) ==
  /\ sent' = Append(sent, RenewInbandMsg(paymentRequired.accepts[1], paymentPayload))
  /\ handlers' = [handlers EXCEPT ![i] = Handler("awaitRenewed", NoToken, Undefined)]
  /\ UNCHANGED <<currentToken, wsState, warnings>>

\* The statements after createPaymentPayload resolved: take the first entry
\* of accepts and send renew_inband.
InbandSend(i, paymentRequired, paymentPayload) ==
  /\ sent' = Append(sent, RenewInbandMsg(paymentRequired.accepts[1], paymentPayload))
  /\ handlers' = [handlers EXCEPT ![i] = Returned]
  /\ UNCHANGED <<currentToken, wsState, warnings>>

\* The signer resolves with a payload for one of the offered requirements.
PayloadCreated(i, requirement) ==
  /\ handlers[i].stage = "createPayload"
  /\ requirement \in {handlers[i].data.accepts[k] : k \in 1..Len(handlers[i].data.accepts)}
  /\ InbandSend(i, handlers[i].data, [signedFor |-> requirement])
  /\ UNCHANGED <<fnArg, fnResult, env, pc, exitCode, schemaRequests, schemaResp, wsCreated, received, dispatched>>

\* The signer rejects.
PayloadRejects(i) ==
  /\ handlers[i].stage = "createPayload"
  /\ RenewCatch(i, PayloadFailed)
  /\ UNCHANGED <<fnArg, fnResult, env, pc, exitCode, schemaRequests, schemaResp, wsCreated, received, dispatched>>

\* The backoff timer fires and the invocation returns.
SleepDone(i) ==
  /\ handlers[i].stage = "sleep"
  /\ handlers' = [handlers EXCEPT ![i] = Returned]
  /\ UNCHANGED <<fnArg, fnResult, env, pc, exitCode, schemaRequests, schemaResp, wsCreated, wsState,
                 currentToken, sent, received, dispatched, warnings>>

\* ----------------------------------------------------------- specification
Requirements == {"req1", "req2"}

Next ==
  \/ MainStart
  \/ SchemaPayAndRetry
  \/ SchemaFetchRejects
  \/ \E resp \in SchemaResponses : SchemaResponse(resp)
  \/ MainCatch
  \/ WsOpen
  \/ WsError
  \/ WsClose
  \/ \E raw \in SessionMessages : WsMessage(raw)
  \/ \E i \in 1..Len(handlers) :
       \/ \E resp \in RenewResponses : HttpFetchResolves(i, resp)
       \/ HttpBodyRead(i)
       \/ \E resp \in ChallengeResponses : InbandFetchResolves(i, resp)
       \/ InbandBodyRead(i)
       \/ \E requirement \in Requirements : PayloadCreated(i, requirement)
       \/ PayloadRejects(i)
       \/ SleepDone(i)

Spec == Init /\ [][Next]_vars

\* The scheduling of the event loop: every enabled step is eventually taken.
FairSpec == Spec /\ WF_vars(Next)

TypeOK ==
  /\ env \in Envs
  /\ pc \in {"start", "schemaFetch", "schemaPaidFetch", "running", "rejected", "exited"}
  /\ exitCode \in {-1, 1}
  /\ wsState \in {"none", "connecting", "open", "errored", "closed"}
  /\ currentToken \in {NoToken, SchemaToken} \cup RenewedTokens
  /\ Len(received) <= MaxMsgs
  /\ Len(handlers) = Len(received)
  /\ Len(dispatched) = Len(received)

\* ------------------------------------------------------------- properties
RenewOps == {"renew_token", "renew_inband"}

\* Indices of the messages a step appends to sent.
NewlySent == (Len(sent) + 1)..Len(sent')

\* Handler i leaves the renewal through the catch block in this step.
FailsNow(i) == handlers[i].stage \in RenewalStages /\ handlers'[i].stage = "sleep"

\* A 'message' event is handled in this step.
Receives == Len(received') = Len(received) + 1

\* C1: at most one renewal attempt (from the start of its HTTP call until it
\* sends renew_token / renew_inband or fails) is in progress at a time.
C1_SingleFlight == Cardinality(PendingRenewals) <= 1

\* C2: once the connection has closed, the current token is never changed
\* and no renew_token / renew_inband message is sent.
C2_CancelOnClose ==
  [][wsState = "closed" =>
       /\ currentToken' = currentToken
       /\ \A k \in NewlySent : sent'[k].op \notin RenewOps]_vars

\* C3: a failing renewal attempt does not close the connection, sends
\* nothing and leaves the current token unchanged; every message received is
\* classified by the fixed chain and a renewal trigger still starts a renewal,
\* whatever renewals have failed before.
C3_FailureNonFatal ==
  [][/\ \A i \in 1..Len(handlers) :
          FailsNow(i) => /\ wsState' = wsState
                         /\ sent' = sent
                         /\ currentToken' = currentToken
     /\ Receives =>
          LET n == Len(received')
              outcome == Classify(safeJsonParse(received'[n]))
          IN /\ dispatched' = Append(dispatched, outcome)
             /\ isRenewalTrigger(outcome) <=> handlers'[n].stage \in RenewalStages
             /\ wsState' = "open"]_vars

\* A renewal has failed and a message that arrived after the failure has
\* been classified (as an unrecognized message) while the socket stays open.
C3_Witness ==
  /\ wsState = "open"
  /\ \E k \in 1..(Len(warnings) - 1) :
       /\ warnings[k] \in RenewErrors
       /\ warnings[k + 1] = "ws event ignored: invalid shape"

\* Handler i completes a successful http renewal in this step.
HttpSucceedsNow(i) == handlers[i].stage = "httpJson" /\ handlers'[i].stage = "done"

\* C4: with the http strategy a renewal trigger starts a renewal request
\* carrying the current token; on success the current token becomes the
\* token of the response and exactly one renew_token with that token is
\* sent, so every renew_token sent carries the token current at that moment.
C4_HttpRenewal ==
  [][RENEW_METHOD = "http" =>
       /\ Receives =>
            LET n == Len(received')
            IN isRenewalTrigger(Classify(safeJsonParse(received'[n]))) =>
                 handlers'[n] = [stage |-> "httpFetch", oldToken |-> currentToken,
                                 data |-> Undefined]
       /\ \A i \in 1..Len(handlers) :
            HttpSucceedsNow(i) =>
              LET token == Field(handlers[i].data.value, "token").val
              IN /\ currentToken' = token
                 /\ sent' = Append(sent, [op |-> "renew_token", token |-> token])
       /\ \A k \in NewlySent :
            sent'[k].op = "renew_token" =>
              /\ sent'[k].token = currentToken'
              /\ Len(sent') = Len(sent) + 1
              /\ \E i \in 1..Len(handlers) : HttpSucceedsNow(i)]_vars

\* An http renewal has succeeded: the renewed token is current and was sent.
C4_Witness ==
  /\ RENEW_METHOD = "http"
  /\ currentToken \in RenewedTokens
  /\ \E k \in 1..Len(sent) : sent[k] = [op |-> "renew_token", token |-> currentToken]

\* New tokens of renewal responses that have arrived and are not yet applied.
TokensInFlight ==
  {Field(handlers[i].data.value, "token").val :
     i \in {j \in 1..Len(handlers) :
              /\ handlers[j].stage = "httpJson"
              /\ handlers[j].data.json
              /\ isRenewResponse(handlers[j].data.value)}}

\* C5: the current token changes only in a successful renewal, and two
\* different new token values are never in flight at once.
C5_TokenOnlyByRenewal ==
  /\ [][(currentToken # NoToken /\ currentToken' # currentToken) =>
          \E i \in 1..Len(handlers) : HttpSucceedsNow(i)]_vars
  /\ [](Cardinality(TokensInFlight) <= 1)

\* Number of configuration messages the open handler has to send.
ConfigCount ==
  2 + (IF env.WATCH_ACCOUNTS # << >> THEN 1 ELSE 0)
    + (IF env.WATCH_PROGRAMS # << >> THEN 1 ELSE 0)

ConfigOps == {"setOptions", "setAccounts", "setPrograms", "getState"}

\* C6: on open, before any inbound message, the client has sent setOptions
\* (six options), setAccounts iff accounts are watched, setPrograms iff
\* programs are watched, and getState last; no configuration message follows.
C6_OpenSequence ==
  wsState = "open" =>
    /\ Len(sent) >= ConfigCount
    /\ received = << >> => Len(sent) = ConfigCount
    /\ sent[1].op = "setOptions"
    /\ DOMAIN sent[1] = {"op", "includeAccounts", "includeTokenBalanceChanges",
                         "includeLogs", "includeInstructions", "eventFormat",
                         "filterTokenBalances"}
    /\ sent[ConfigCount].op = "getState"
    /\ env.WATCH_ACCOUNTS # << >> => sent[2].op = "setAccounts"
    /\ env.WATCH_PROGRAMS # << >> => sent[ConfigCount - 1].op = "setPrograms"
    /\ \A k \in 1..Len(sent) :
         /\ k > ConfigCount => sent[k].op \notin ConfigOps
         /\ sent[k].op = "setAccounts" => (k = 2 /\ env.WATCH_ACCOUNTS # << >>)
         /\ sent[k].op = "setPrograms" => (k = ConfigCount - 1 /\ env.WATCH_PROGRAMS # << >>)
         /\ sent[k].op = "setOptions" => k = 1
         /\ sent[k].op = "getState" => k = ConfigCount

\* The socket has just opened with both watchlists configured.
C6_Witness ==
  /\ wsState = "open"
  /\ received = << >>
  /\ Len(sent) = 4

C8_Reconnects == (wsState = "closed") ~> (wsState \in {"connecting", "open"})

KeyMissing == env.SVM_PRIVATE_KEY \in {"undefined", ""}

\* C9: without a private key no schema request, no renewal request and no
\* WebSocket are ever made, and the process exits with a non-zero status.
C9_MissingKeyFatal ==
  KeyMissing =>
    /\ schemaRequests = 0
    /\ handlers = << >>
    /\ wsCreated = 0
    /\ wsState = "none"
    /\ pc \in {"start", "rejected", "exited"}
    /\ pc = "exited" => exitCode # 0 /\ exitCode # -1

\* The process has exited for want of a key.
C9_Witness == KeyMissing /\ pc = "exited" /\ exitCode = 1

\* Position of the first query parameter named t, 0 when there is none.
FirstT(url) ==
  IF \E k \in 1..Len(url.params) : url.params[k].name = "t"
  THEN CHOOSE k \in 1..Len(url.params) :
         /\ url.params[k].name = "t"
         /\ \A j \in 1..(k - 1) : url.params[j].name # "t"
  ELSE 0

\* The endpoint URL parses and its parameter t is present and not empty.
UrlHasToken(url) ==
  /\ url.parseable
  /\ FirstT(url) > 0
  /\ url.params[FirstT(url)].value # ""

\* The schema response is one the negotiation must reject.
NegotiationFails(resp) ==
  IF resp.status < 200 \/ resp.status > 299 THEN TRUE
  ELSE IF ~resp.body.json THEN TRUE
  ELSE IF resp.body.value.protocol # "ws402" THEN TRUE
  ELSE ~UrlHasToken(resp.body.value.websocketEndpoint)

\* C10: after a failing schema response no WebSocket is ever created and the
\* process exits non-zero; a WebSocket exists only after a response that
\* yields a non-empty token.
C10_NegotiationFatal ==
  /\ (schemaResp # NoResponse /\ NegotiationFails(schemaResp)) =>
       /\ wsCreated = 0
       /\ wsState = "none"
       /\ pc \in {"rejected", "exited"}
       /\ pc = "exited" => exitCode # 0 /\ exitCode # -1
  /\ wsCreated > 0 =>
       /\ schemaResp # NoResponse
       /\ ~NegotiationFails(schemaResp)
       /\ currentToken # ""
       /\ currentToken # NoToken
  /\ pc = "exited" => wsCreated = 0

\* The paid retry was answered 402 again and the process has exited.
C10_Witness ==
  /\ schemaResp.status = 402
  /\ schemaRequests = 2
  /\ pc = "exited"
  /\ exitCode = 1
  /\ wsCreated = 0

\* ------------------------------------------------- token extraction alone
PureEnv ==
  [SVM_PRIVATE_KEY |-> "key", RENEW_METHOD |-> "undefined",
   WATCH_ACCOUNTS |-> << >>, WATCH_PROGRAMS |-> << >>, EVENT_FORMAT |-> "enhanced",
   X402_SCHEMA_PATH |-> DefaultSchemaPath]

ParamNames == {"t", "x"}

ParamValues == {"", "abc123", "zz"}

Params == {Param(n, v) : n \in ParamNames, v \in ParamValues}

RECURSIVE SeqsUpTo(_, _)
SeqsUpTo(S, n) ==
  IF n = 0 THEN {<< >>}
  ELSE LET shorter == SeqsUpTo(S, n - 1)
       IN shorter \cup {Append(q, x) : q \in shorter, x \in S}

TokenUrls == {Url(p, q) : p \in BOOLEAN, q \in SeqsUpTo(Params, MaxParams)}

TokenInit ==
  /\ env = PureEnv
  /\ Start
  /\ fnArg \in {[fn |-> "token", url |-> u] : u \in TokenUrls}
  /\ fnResult = NoResult

\* requestWs402Schema on a 200 response whose schema names this endpoint.
ExtractToken ==
  /\ fnArg.fn = "token"
  /\ fnResult = NoResult
  /\ fnResult' =
       [fn |-> "token",
        token |-> parseTokenFromWsUrl(fnArg.url),
        schema |-> requestWs402Schema(
                     [status |-> 200, body |-> Body(SchemaValue("ws402", fnArg.url))])]
  /\ UNCHANGED <<fnArg, env, pc, exitCode, schemaRequests, schemaResp, wsCreated,
                 wsState, currentToken, sent, received, dispatched, handlers, warnings>>

TokenSpec == TokenInit /\ [][ExtractToken]_vars

\* C11: the extracted token is the value of the first parameter t of a
\* parseable endpoint URL; without a parameter t, with an empty one, or for
\* an unparseable URL the extraction yields "" and the negotiation throws.
C11_TokenExtraction ==
  fnResult.fn = "token" =>
    LET url == fnArg.url
    IN /\ UrlHasToken(url) =>
            /\ fnResult.token = url.params[FirstT(url)].value
            /\ fnResult.schema = [ok |-> TRUE, token |-> url.params[FirstT(url)].value]
       /\ ~UrlHasToken(url) =>
            /\ fnResult.token = ""
            /\ ~fnResult.schema.ok

\* ".../ws?x=zz&t=abc123" gave the token "abc123".
C11_Witness ==
  /\ fnResult.fn = "token"
  /\ fnArg.url = Url(TRUE, <<Param("x", "zz"), Param("t", "abc123")>>)
  /\ fnResult.token = "abc123"
  /\ fnResult.schema.ok

\* --------------------------------------------------- classification alone
Typed(t) == [typeof |-> t, val |-> ""]

EventTypes == {"status", "transaction", "account", "slot", "ticker", "leaderboard"}

DiscriminatingFields == {"now", "signature", "pubkey", "slot", "baseMint", "items"}

\* Values of the type and op properties: absent, strings, a number.
TypeValues == {Str(t) : t \in EventTypes \cup {"bogus"}} \cup {Num("7")}

OpValues == {Str(o) : o \in X402Ops \cup {"bogus"}} \cup {Num("7")}

\* Objects with any of: a type, an op, one discriminating field of some type.
TypeParts == {<< >>} \cup {"type" :> v : v \in TypeValues}

OpParts == {<< >>} \cup {"op" :> v : v \in OpValues}

FieldParts ==
  {<< >>} \cup {f :> Typed(t) : f \in DiscriminatingFields,
                               t \in {"string", "number", "array"}}

ClassifyObjects == {Obj(a @@ b @@ c) : a \in TypeParts, b \in FieldParts, c \in OpParts}

\* JSON texts that are not objects, and text that is not JSON.
ClassifyMessages ==
  {Raw(v) : v \in ClassifyObjects}
    \cup {Raw([kind |-> k]) : k \in {"array", "null", "string", "number"}}
    \cup {NotJson}

ClassifyInit ==
  /\ env = PureEnv
  /\ Start
  /\ fnArg \in {[fn |-> "classify", raw |-> m] : m \in ClassifyMessages}
  /\ fnResult = NoResult

\* The decoding and the chain of guards of the 'message' handler.
ClassifyMessage ==
  /\ fnArg.fn = "classify"
  /\ fnResult = NoResult
  /\ fnResult' = [fn |-> "classify", outcome |-> Classify(safeJsonParse(fnArg.raw))]
  /\ UNCHANGED <<fnArg, env, pc, exitCode, schemaRequests, schemaResp, wsCreated,
                 wsState, currentToken, sent, received, dispatched, handlers, warnings>>

ClassifySpec == ClassifyInit /\ [][ClassifyMessage]_vars

\* The fixed order of the variants, and the field each data variant requires.
VariantOrder == <<"status", "transaction", "account", "slot", "ticker", "leaderboard", "lifecycle">>

RequiredField ==
  [status |-> [name |-> "now", typeof |-> "string"],
   transaction |-> [name |-> "signature", typeof |-> "string"],
   account |-> [name |-> "pubkey", typeof |-> "string"],
   slot |-> [name |-> "slot", typeof |-> "number"],
   ticker |-> [name |-> "baseMint", typeof |-> "string"],
   leaderboard |-> [name |-> "items", typeof |-> "array"]]

\* The object has this property with this type.
HasTyped(raw, name, typeof) ==
  /\ name \in DOMAIN raw.value.fields
  /\ raw.value.fields[name].typeof = typeof

IsJsonObject(raw) == raw.wellFormed /\ raw.value.kind = "object"

MatchesVariant(raw, variant) ==
  /\ IsJsonObject(raw)
  /\ IF variant = "lifecycle"
     THEN /\ HasTyped(raw, "op", "string")
          /\ raw.value.fields["op"].val \in
               {"hello", "renewal_reminder", "payment_required", "renewed", "error"}
     ELSE /\ HasTyped(raw, "type", "string")
          /\ raw.value.fields["type"].val = variant
          /\ HasTyped(raw, RequiredField[variant].name, RequiredField[variant].typeof)

\* The first variant of the fixed order the message matches, or Unrecognized.
ExpectedVariant(raw) ==
  IF \E k \in 1..Len(VariantOrder) : MatchesVariant(raw, VariantOrder[k])
  THEN VariantOrder[CHOOSE k \in 1..Len(VariantOrder) :
                      /\ MatchesVariant(raw, VariantOrder[k])
                      /\ \A j \in 1..(k - 1) : ~MatchesVariant(raw, VariantOrder[j])]
  ELSE "Unrecognized"

\* The variant an outcome of the handler's chain stands for.
VariantOf(outcome) ==
  IF outcome = "invalid shape" THEN "Unrecognized"
  ELSE IF outcome \in {"hello", "renewal_reminder", "payment_required", "renewed", "error"}
       THEN "lifecycle"
  ELSE outcome

\* C12: every inbound message gets exactly one outcome, the first variant in
\* the fixed order whose type tag and required field (or op) it has, and
\* Unrecognized when it is not JSON, not an object, or matches none.
C12_ClassificationOrdered ==
  fnResult.fn = "classify" =>
    /\ VariantOf(fnResult.outcome) = ExpectedVariant(fnArg.raw)
    /\ VariantOf(fnResult.outcome) = "lifecycle" =>
         fnResult.outcome = fnArg.raw.value.fields["op"].val

\* A message with the status tag, a timestamp and a lifecycle op is a status
\* event: the first match of the order.
C12_Witness ==
  /\ fnResult.fn = "classify"
  /\ fnArg.raw = Raw(Obj([type |-> Str("status"), now |-> Typed("string"),
                          op |-> Str("renewal_reminder")]))
  /\ fnResult.outcome = "status"

\* ------------------------------------- the session over a wider alphabet
\* A data event of each type, data events that also carry a renewal op,
\* type tags without their field (with and without a renewal op), every
\* lifecycle op, and payloads that match nothing.
DataEvent(type) == "type" :> Str(type) @@ RequiredField[type].name :> Typed(RequiredField[type].typeof)

HandleMessages ==
  {Raw(Obj(DataEvent(t))) : t \in EventTypes}
    \cup {Raw(Obj(DataEvent("status") @@ "op" :> Str("renewal_reminder"))),
          Raw(Obj(DataEvent("ticker") @@ "op" :> Str("payment_required"))),
          Raw(Obj([type |-> Str("slot"), op |-> Str("renewal_reminder")])),
          Raw(Obj([type |-> Str("transaction"), slot |-> Typed("number"),
                   op |-> Str("payment_required")])),
          Raw(Obj([type |-> Str("slot"), slot |-> Typed("string")])),
          Raw(Obj([op |-> Str("bogus")])),
          Raw(Obj([op |-> Num("7")])),
          Raw([kind |-> "array"]),
          NotJson}
    \cup {Raw(Obj([op |-> Str(o)])) : o \in X402Ops}

HandleEnvs ==
  {[SVM_PRIVATE_KEY |-> "key", RENEW_METHOD |-> m, WATCH_ACCOUNTS |-> <<"w1">>,
    WATCH_PROGRAMS |-> << >>, EVENT_FORMAT |-> "enhanced",
    X402_SCHEMA_PATH |-> DefaultSchemaPath] : m \in {"http", "inband"}}

HandleInit ==
  /\ env \in HandleEnvs
  /\ Start
  /\ fnArg = NoArg
  /\ fnResult = NoResult

\* Variant: a message is held back while a renewal or a backoff is running.
HandleMessageAfterRenewal(raw) ==
  /\ wsState = "open"
  /\ Len(received) < MaxHandled
  /\ \A i \in 1..Len(handlers) : handlers[i].stage = "done"
  /\ OnMessage(raw)
  /\ UNCHANGED <<fnArg, fnResult, env, pc, exitCode, schemaRequests, schemaResp, wsCreated>>

HandleMessage(raw) ==
  /\ wsState = "open"
  /\ Len(received) < MaxHandled
  /\ OnMessage(raw)
  /\ UNCHANGED <<fnArg, fnResult, env, pc, exitCode, schemaRequests, schemaResp, wsCreated>>

HandleNext ==
  \/ MainStart
  \/ SchemaPayAndRetry
  \/ SchemaFetchRejects
  \/ \E resp \in SchemaResponses : SchemaResponse(resp)
  \/ MainCatch
  \/ WsOpen
  \/ WsError
  \/ WsClose
  \/ \E raw \in HandleMessages : HandleMessage(raw)
  \/ \E i \in 1..Len(handlers) :
       \/ \E resp \in RenewResponses : HttpFetchResolves(i, resp)
       \/ HttpBodyRead(i)
       \/ \E resp \in ChallengeResponses : InbandFetchResolves(i, resp)
       \/ InbandBodyRead(i)
       \/ \E requirement \in Requirements : PayloadCreated(i, requirement)
       \/ PayloadRejects(i)
       \/ SleepDone(i)

HandleSpec == HandleInit /\ [][HandleNext]_vars

\* C13: handling an unrecognized message only records a diagnostic: nothing
\* is sent, no renewal starts, the token, the socket and the process are
\* left as they were.
C13_UnrecognizedDropped ==
  [][(Receives /\ ExpectedVariant(received'[Len(received')]) = "Unrecognized") =>
       (/\ warnings' = Append(warnings, "ws event ignored: invalid shape")
        /\ sent' = sent
        /\ handlers'[Len(handlers')].stage = "done"
        /\ PendingRenewals' = PendingRenewals
        /\ currentToken' = currentToken
        /\ wsState' = "open" /\ wsState = "open"
        /\ pc' = pc
        /\ exitCode' = exitCode)]_vars

\* An unrecognized message was dropped and the next message, a renewal
\* trigger, started its renewal on the open socket.
C13_Witness ==
  /\ Len(received) = 2
  /\ ExpectedVariant(received[1]) = "Unrecognized"
  /\ handlers[1].stage = "done"
  /\ handlers[2].stage \in RenewalStages
  /\ wsState = "open"

\* --------------------------------------------------- transaction summaries
\* An array property of an event: absent, or a list.  A token transfer or a
\* balance change is represented by its mint.
Absent == [present |-> FALSE, items |-> << >>]

List(items) == [present |-> TRUE, items |-> items]

\* new Set<string>().add: insertion order, no duplicates.
SetAdd(set, x) == IF \E k \in 1..Len(set) : set[k] = x THEN set ELSE Append(set, x)

\* for (const change of changes) if (change.mint) mints.add(change.mint)
RECURSIVE AddMints(_, _)
AddMints(set, mints) ==
  IF mints = << >> THEN set
  ELSE AddMints(IF Head(mints) # "" THEN SetAdd(set, Head(mints)) ELSE set, Tail(mints))

\* The nested loop over accountData and its tokenBalanceChanges.
RECURSIVE AddAccountMints(_, _)
AddAccountMints(set, accountData) ==
  IF accountData = << >> THEN set
  ELSE AddAccountMints(AddMints(set, Head(accountData)), Tail(accountData))

MintLimit == 5

\* [...mints].slice(0, 5)
Slice(set) == SubSeq(set, 1, IF Len(set) < MintLimit THEN Len(set) ELSE MintLimit)

Summary(signature, count, mints) ==
  [threw |-> FALSE, signature |-> signature, count |-> count, mints |-> mints]

\* Iterating an absent array throws a TypeError.
SummaryThrows == [threw |-> TRUE, signature |-> "", count |-> 0, mints |-> << >>]

summarizeRawTransaction(event) ==
  LET changes == IF event.tokenBalanceChanges.present
                 THEN event.tokenBalanceChanges.items ELSE << >>
  IN Summary(event.signature, Len(changes), Slice(AddMints(<< >>, changes)))

\* Variant: the account data is read before the token transfers.
summarizeEnhancedTransactionAccountsFirst(event) ==
  IF ~event.tokenTransfers.present \/ ~event.accountData.present THEN SummaryThrows
  ELSE Summary(event.signature, Len(event.tokenTransfers.items),
               Slice(AddMints(AddAccountMints(<< >>, event.accountData.items),
                              event.tokenTransfers.items)))

summarizeEnhancedTransaction(event) ==
  IF ~event.tokenTransfers.present \/ ~event.accountData.present THEN SummaryThrows
  ELSE Summary(event.signature, Len(event.tokenTransfers.items),
               Slice(AddAccountMints(AddMints(<< >>, event.tokenTransfers.items),
                                     event.accountData.items)))

\* Variant: the format is read off the token transfers.
isEnhancedTransactionEventByTransfers(value) == value.tokenTransfers.present

\* 'nativeTransfers' in value
isEnhancedTransactionEvent(value) == value.nativeTransfers

\* In full mode the event itself is logged and no summary is made.
NoSummary == [threw |-> FALSE, signature |-> "", count |-> 0, mints |-> << >>]

\* The transaction branch of the 'message' handler: what it logs.
TransactionBranch(mode, decoded) ==
  IF mode = "full" THEN [logged |-> "event", summary |-> NoSummary]
  ELSE IF isEnhancedTransactionEvent(decoded)
       THEN [logged |-> "enhanced summary", summary |-> summarizeEnhancedTransaction(decoded)]
       ELSE [logged |-> "raw summary", summary |-> summarizeRawTransaction(decoded)]

TxLogModes == {"full", "summary"}

SmallMints == {"", "A", "B"}

LongMints ==
  {<<"A", "B", "A", "C", "D", "E", "F">>, <<"A", "B", "C", "D">>,
   <<"F", "", "E", "D", "C", "B", "A", "F">>}

MintLists == SeqsUpTo(SmallMints, MaxMints) \cup LongMints

AccountChangeLists == {<< >>, <<"A">>, <<"", "B">>, <<"E", "F", "A">>}

TxEvent(native, transfers, accounts, changes) ==
  [signature |-> "sig", nativeTransfers |-> native, tokenTransfers |-> transfers,
   accountData |-> accounts, tokenBalanceChanges |-> changes]

EnhancedEvents ==
  {TxEvent(TRUE, List(t), List(a), Absent) :
     t \in MintLists, a \in SeqsUpTo(AccountChangeLists, MaxAccounts)}

RawEvents ==
  {TxEvent(FALSE, Absent, Absent, c) : c \in {Absent} \cup {List(m) : m \in MintLists}}

\* An event that has nativeTransfers but not the arrays of an enhanced event.
MalformedEvents == {TxEvent(TRUE, Absent, Absent, List(<<"A">>))}

TxEvents == EnhancedEvents \cup RawEvents \cup MalformedEvents

TxInit ==
  /\ env \in {[PureEnv EXCEPT !.EVENT_FORMAT = f] : f \in EventFormats}
  /\ Start
  /\ fnArg \in {[fn |-> "tx", mode |-> m, event |-> e] : m \in TxLogModes, e \in TxEvents}
  /\ fnResult = NoResult

HandleTransaction ==
  /\ fnArg.fn = "tx"
  /\ fnResult = NoResult
  /\ fnResult' = [fn |-> "tx", log |-> TransactionBranch(fnArg.mode, fnArg.event)]
  /\ UNCHANGED <<fnArg, env, pc, exitCode, schemaRequests, schemaResp, wsCreated,
                 wsState, currentToken, sent, received, dispatched, handlers, warnings>>

TxSpec == TxInit /\ [][HandleTransaction]_vars

RECURSIVE Flatten(_)
Flatten(lists) == IF lists = << >> THEN << >> ELSE Head(lists) \o Flatten(Tail(lists))

\* The mints of an event in the order the claim says they are encountered.
Encountered(event) ==
  IF event.nativeTransfers
  THEN event.tokenTransfers.items \o Flatten(event.accountData.items)
  ELSE event.tokenBalanceChanges.items

FirstAt(seq, x) == CHOOSE k \in 1..Len(seq) : seq[k] = x /\ \A j \in 1..(k - 1) : seq[j] # x

Distinct(seq) == {seq[k] : k \in 1..Len(seq)} \ {""}

WellShaped(event) == event \in EnhancedEvents \cup RawEvents

\* C14: a summary's mint list has at most 5 entries, no duplicates and no
\* empty mint, and is the first-seen order of the distinct mints encountered
\* (token transfers before account data for enhanced, balance changes for
\* raw), cut after the fifth.
C14_MintSummary ==
  (fnResult.fn = "tx" /\ fnArg.mode = "summary" /\ WellShaped(fnArg.event)) =>
    LET seen == Encountered(fnArg.event)
        mints == fnResult.log.summary.mints
    IN /\ ~fnResult.log.summary.threw
       /\ Len(mints) <= 5
       /\ Len(mints) = (IF Cardinality(Distinct(seen)) < 5
                        THEN Cardinality(Distinct(seen)) ELSE 5)
       /\ \A k \in 1..Len(mints) : mints[k] \in Distinct(seen)
       /\ \A j, k \in 1..Len(mints) : j < k => FirstAt(seen, mints[j]) < FirstAt(seen, mints[k])
       /\ \A x \in Distinct(seen) :
            (\E k \in 1..Len(mints) : FirstAt(seen, x) < FirstAt(seen, mints[k]))
              => \E k \in 1..Len(mints) : mints[k] = x

\* Token transfers with mints [A,B,A,C,D,E,F] and account data [E,F,A]
\* summarize to [A,B,C,D,E].
C14_Witness ==
  /\ fnResult.fn = "tx"
  /\ fnArg.mode = "summary"
  /\ fnArg.event.nativeTransfers
  /\ fnArg.event.tokenTransfers.items = <<"A", "B", "A", "C", "D", "E", "F">>
  /\ fnArg.event.accountData.items = <<(<<"E", "F", "A">>)>>
  /\ fnResult.log.summary.mints = <<"A", "B", "C", "D", "E">>

\* C15: in summary mode a transaction event is summarized as enhanced
\* exactly when it has the nativeTransfers property and as raw otherwise; in
\* no mode and under no configured event format is a raw-shaped event
\* summarized as enhanced or an enhanced-shaped event as raw.
C15_VariantByNativeTransfers ==
  fnResult.fn = "tx" =>
    /\ fnArg.mode = "summary" =>
         /\ fnArg.event.nativeTransfers => fnResult.log.logged = "enhanced summary"
         /\ ~fnArg.event.nativeTransfers => fnResult.log.logged = "raw summary"
    /\ fnArg.event \in RawEvents => fnResult.log.logged # "enhanced summary"
    /\ fnArg.event \in EnhancedEvents => fnResult.log.logged # "raw summary"

\* With eventFormat=raw configured, an enhanced-shaped event without token
\* transfers was summarized as enhanced.
C15_Witness ==
  /\ fnResult.fn = "tx"
  /\ env.EVENT_FORMAT = "raw"
  /\ fnArg.event \in EnhancedEvents
  /\ fnArg.event.tokenTransfers.items = << >>
  /\ fnResult.log.logged = "enhanced summary"

\* Handler i sends its renewal message and returns in this step.
SendsRenewalNow(i) == handlers[i].stage \in RenewalStages /\ handlers'[i].stage = "done"

\* C16: a renewal message is sent only when no renewal triggered by an
\* earlier message is still unfinished, so renewal messages follow the order
\* of their triggers.
C16_RenewalsInTriggerOrder ==
  [][\A i \in 1..Len(handlers) :
       SendsRenewalNow(i) =>
         \A j \in 1..(i - 1) : handlers[j].stage \notin RenewalStages]_vars

RenewalOps == {"renewal_reminder", "payment_required"}

\* The message has an op that asks for a renewal.
HasRenewalOp(raw) ==
  /\ IsJsonObject(raw)
  /\ HasTyped(raw, "op", "string")
  /\ raw.value.fields["op"].val \in RenewalOps

\* The message names a data variant in its type tag.
HasDataTag(raw) ==
  /\ IsJsonObject(raw)
  /\ HasTyped(raw, "type", "string")
  /\ raw.value.fields["type"].val \in
       {"status", "transaction", "account", "slot", "ticker", "leaderboard"}

IsDataEvent(raw) ==
  \E variant \in {"status", "transaction", "account", "slot", "ticker", "leaderboard"} :
    MatchesVariant(raw, variant)

\* C17: a message that matches a data variant and carries a renewal op is
\* handled as that data event and starts no renewal; a message with a data
\* type tag but without the variant's field, carrying a renewal op, is
\* handled as the lifecycle event and starts a renewal with the current token.
C17_DataBeforeLifecycle ==
  [][Receives =>
       LET n == Len(received')
           raw == received'[n]
       IN /\ (IsDataEvent(raw) /\ HasRenewalOp(raw)) =>
               /\ dispatched'[n] = raw.value.fields["type"].val
               /\ handlers'[n].stage = "done"
               /\ PendingRenewals' = PendingRenewals
               /\ sent' = sent
          /\ (HasDataTag(raw) /\ ~IsDataEvent(raw) /\ HasRenewalOp(raw)) =>
               /\ dispatched'[n] = raw.value.fields["op"].val
               /\ handlers'[n].stage \in {"httpFetch", "inbandFetch"}
               /\ handlers'[n].oldToken = currentToken]_vars

\* A status event carrying op=renewal_reminder was handled as status, and a
\* slot-tagged message without a slot, carrying the same op, started a renewal.
C17_Witness ==
  /\ Len(received) = 2
  /\ IsDataEvent(received[1]) /\ HasRenewalOp(received[1])
  /\ dispatched[1] = "status"
  /\ handlers[1].stage = "done"
  /\ HasDataTag(received[2]) /\ ~IsDataEvent(received[2])
  /\ dispatched[2] = "renewal_reminder"
  /\ handlers[2].stage \in RenewalStages

SentOps == {"setOptions", "setAccounts", "setPrograms", "getState", "renew_token", "renew_inband"}

\* C18: only renewal_reminder and payment_required start a renewal; any
\* other message is handled without a renewal request; handling a message
\* sends nothing by itself; the client only ever sends the four
\* configuration messages, on open, and renew_token / renew_inband, at the
\* end of a renewal.
C18_OnlyTriggersRenew ==
  /\ [](\A k \in 1..Len(sent) : sent[k].op \in SentOps)
  /\ [][/\ Receives =>
             LET n == Len(received')
                 raw == received'[n]
                 trigger == ExpectedVariant(raw) = "lifecycle" /\ HasRenewalOp(raw)
             IN /\ sent' = sent
                /\ trigger => handlers'[n].stage \in {"httpFetch", "inbandFetch"}
                /\ ~trigger => /\ handlers'[n].stage = "done"
                               /\ PendingRenewals' = PendingRenewals
        /\ \A k \in NewlySent :
             /\ sent'[k].op \in ConfigOps => (wsState = "connecting" /\ wsState' = "open")
             /\ sent'[k].op \in RenewOps =>
                  \E i \in 1..Len(handlers) : SendsRenewalNow(i)]_vars

\* A renewed event was handled without a renewal, and the renewal of a
\* payment_required event has sent its message.
C18_Witness ==
  /\ Len(received) = 2
  /\ dispatched = <<"renewed", "payment_required">>
  /\ handlers[1].stage = "done"
  /\ handlers[2].stage = "done"
  /\ sent[Len(sent)].op \in RenewOps

\* The body of a 402 challenge offers no requirement: it is not JSON, or its
\* accepts is missing or empty.
NoRequirementOffered(body) ==
  IF ~body.json THEN TRUE
  ELSE IF ~body.value.acceptsIsArray THEN TRUE
  ELSE body.value.accepts = << >>

\* C19: an in-band challenge answered with a status other than 402, or with
\* a 402 whose accepts list is missing or empty, ends in the catch block as a
\* renewal error, and the attempt sends no renew_inband, then or later.
C19_ChallengeFailure ==
  [][\A i \in 1..Len(handlers) :
       /\ \A resp \in ChallengeResponses :
            (resp.status # 402 /\ InbandFetchResolves(i, resp)) =>
              /\ handlers'[i].stage = "sleep"
              /\ warnings' = Append(warnings, ChallengeExpected)
              /\ sent' = sent
       /\ (/\ handlers[i].stage = "inbandJson"
           /\ handlers'[i] # handlers[i]
           /\ NoRequirementOffered(handlers[i].data)) =>
              /\ handlers'[i].stage = "sleep"
              /\ warnings' = Append(warnings, PaymentRequiredInvalid)
              /\ sent' = sent
       /\ (handlers[i].stage = "sleep" /\ handlers'[i] # handlers[i]) =>
              /\ handlers'[i].stage = "done"
              /\ sent' = sent
       /\ (handlers[i].stage = "done") => handlers'[i] = handlers[i]]_vars

\* Two in-band attempts have failed, one on a non-402 answer and one on a
\* challenge without requirements, and no renew_inband was sent.
C19_Witness ==
  /\ RENEW_METHOD = "inband"
  /\ \E k \in 1..Len(warnings) : warnings[k] = ChallengeExpected
  /\ \E k \in 1..Len(warnings) : warnings[k] = PaymentRequiredInvalid
  /\ \A k \in 1..Len(sent) : sent[k].op # "renew_inband"
  /\ \A i \in 1..Len(handlers) : handlers[i].stage = "done"

\* C20: every renew_inband carries the first offered requirement and a
\* payload the signer produced for that same requirement.
C20_PayloadForFirstRequirement ==
  /\ [](\A k \in 1..Len(sent) :
          sent[k].op = "renew_inband" =>
            sent[k].paymentPayload.signedFor = sent[k].paymentRequirements)
  /\ [][\A i \in 1..Len(handlers) :
          (handlers[i].stage = "createPayload" /\ handlers'[i].stage = "done") =>
            /\ Len(sent') = Len(sent) + 1
            /\ sent'[Len(sent')].op = "renew_inband"
            /\ sent'[Len(sent')].paymentRequirements = handlers[i].data.accepts[1]]_vars

\* A renew_inband message has been sent.
InbandSent == \E k \in 1..Len(sent) : sent[k].op = "renew_inband"

InbandStages == {"inbandFetch", "inbandJson", "createPayload"}

\* C21: the in-band confirmation is not awaited.  The invocation that sends
\* renew_inband returns with the send; afterwards every inbound message is
\* still handled while the socket is open, whether or not a renewed event
\* has arrived; no step of the client closes the socket, ends the process or
\* warns because the confirmation is missing; handling a renewed event sends
\* nothing and starts nothing; and with the inband strategy the current
\* token stays the token of the schema, which every challenge carries.
C21_ConfirmationNotAwaited ==
  /\ []((InbandSent /\ wsState = "open" /\ Len(received) < MaxHandled) =>
          \A raw \in HandleMessages : ENABLED HandleMessage(raw))
  /\ []((RENEW_METHOD = "inband" /\ pc = "running") =>
          /\ currentToken = requestWs402Schema(schemaResp).token
          /\ \A i \in 1..Len(handlers) :
               handlers[i].stage \in InbandStages =>
                 handlers[i].oldToken = requestWs402Schema(schemaResp).token)
  /\ [][/\ \A k \in NewlySent :
             sent'[k].op = "renew_inband" =>
               \E i \in 1..Len(handlers) :
                 /\ handlers[i].stage = "createPayload"
                 /\ handlers'[i] = Returned
        /\ InbandSent =>
             /\ pc' = pc
             /\ exitCode' = exitCode
             /\ (wsState' # wsState) =>
                  (handlers' = handlers /\ received' = received /\ sent' = sent)
             /\ (warnings' # warnings) =>
                  \/ \E i \in 1..Len(handlers) : FailsNow(i)
                  \/ Receives /\ dispatched'[Len(dispatched')] = "invalid shape"
                  \/ wsState' = "errored"
        /\ (Receives /\ dispatched'[Len(dispatched')] = "renewed") =>
             /\ sent' = sent
             /\ handlers'[Len(handlers')] = Returned
             /\ PendingRenewals' = PendingRenewals
             /\ warnings' = warnings
             /\ currentToken' = currentToken
             /\ wsState' = wsState]_vars

\* renew_inband was sent, no renewed event ever arrived, and a status event
\* that followed was handled on the open socket with the schema's token.
C21_Witness ==
  /\ RENEW_METHOD = "inband"
  /\ InbandSent
  /\ dispatched = <<"payment_required", "status">>
  /\ handlers = <<Returned, Returned>>
  /\ wsState = "open"
  /\ currentToken = SchemaToken
  /\ \A k \in 1..Len(warnings) : warnings[k] \notin RenewErrors

\* Some invocation is in the backoff sleep of the catch block.
InBackoff == \E i \in 1..Len(handlers) : handlers[i].stage = "sleep"

\* C22: a renewal trigger handled while a failed renewal is in its backoff
\* does not start a renewal attempt.
C22_BackoffDefersRenewal ==
  [][(Receives /\ InBackoff) =>
       handlers'[Len(handlers')].stage \notin RenewalStages]_vars

DataVariants == {"status", "transaction", "account", "slot", "ticker", "leaderboard"}

\* C23: data events are dispatched in arrival order, each one to completion
\* within the step that receives it: the k-th dispatch is that of the k-th
\* message, a data event is dispatched as its own variant and its invocation
\* has returned, earlier dispatches and invocations are left as they were,
\* and a data event can be handled while a renewal is pending or a backoff
\* is running.
C23_DataEventsFifo ==
  /\ [](/\ Len(dispatched) = Len(received)
        /\ \A k \in 1..Len(received) :
             IsDataEvent(received[k]) =>
               /\ dispatched[k] = received[k].value.fields["type"].val
               /\ dispatched[k] \in DataVariants
               /\ handlers[k] = Returned)
  /\ []((wsState = "open" /\ Len(received) < MaxHandled
           /\ (PendingRenewals # {} \/ InBackoff)) =>
          \A raw \in HandleMessages :
            IsDataEvent(raw) => ENABLED HandleMessage(raw))
  /\ [][Receives =>
          LET raw == received'[Len(received')]
          IN /\ received' = Append(received, raw)
             /\ Len(dispatched') = Len(dispatched) + 1
             /\ \A k \in 1..Len(dispatched) : dispatched'[k] = dispatched[k]
             /\ IsDataEvent(raw) =>
                  /\ handlers' = Append(handlers, Returned)
                  /\ sent' = sent
                  /\ warnings' = warnings]_vars

\* A ticker event that arrived after a renewal trigger was dispatched and
\* has returned while the failed renewal is still in its backoff.
C23_Witness ==
  /\ Len(received) = 2
  /\ dispatched = <<"renewal_reminder", "ticker">>
  /\ handlers[1].stage = "sleep"
  /\ handlers[2] = Returned
  /\ wsState = "open"

StrategyValues == {"undefined", "", "http", "inband", "INBAND", "both"}

StrategyEnvs ==
  {[SVM_PRIVATE_KEY |-> "key", RENEW_METHOD |-> m, WATCH_ACCOUNTS |-> <<"w1">>,
    WATCH_PROGRAMS |-> << >>, EVENT_FORMAT |-> "enhanced",
    X402_SCHEMA_PATH |-> DefaultSchemaPath] : m \in StrategyValues}

StrategyInit ==
  /\ env \in StrategyEnvs
  /\ Start
  /\ fnArg = NoArg
  /\ fnResult = NoResult

StrategySpec == StrategyInit /\ [][Next]_vars

DirectStages == {"httpFetch", "httpJson"}

\* C25: the configured strategy value never changes; a value other than
\* "inband" selects http: no renew_inband is ever sent and no challenge
\* request is ever outstanding; with "inband" no renew_token is ever sent
\* and no direct renewal request is ever outstanding.
C25_StrategyFixed ==
  /\ [][env' = env]_vars
  /\ [](\A i \in 1..Len(handlers) :
          /\ env.RENEW_METHOD # "inband" => handlers[i].stage \notin InbandStages
          /\ env.RENEW_METHOD = "inband" => handlers[i].stage \notin DirectStages)
  /\ [](\A k \in 1..Len(sent) :
          /\ env.RENEW_METHOD # "inband" => sent[k].op # "renew_inband"
          /\ env.RENEW_METHOD = "inband" => sent[k].op # "renew_token")
  /\ [][\A i \in 1..Len(handlers') :
          (i > Len(handlers) /\ handlers'[i].stage # "done") =>
            handlers'[i].stage =
              (IF env.RENEW_METHOD = "inband" THEN "inbandFetch" ELSE "httpFetch")]_vars

\* With a strategy value that is neither name, two renewals went the direct
\* way: one has sent renew_token, the other's request is outstanding.
C25_Witness ==
  /\ env.RENEW_METHOD \notin {"http", "inband", "undefined"}
  /\ Len(handlers) = 2
  /\ handlers[1] = Returned
  /\ handlers[2].stage = "httpFetch"
  /\ sent[Len(sent)].op = "renew_token"

NoWatchlist == env.WATCH_ACCOUNTS = << >> /\ env.WATCH_PROGRAMS = << >>

WatchlistWarnings ==
  {k \in 1..Len(warnings) : warnings[k] = "no watchlists configured"}

\* C26: with no accounts and no programs configured the open handler warns
\* once and sends setOptions, then getState; with any watchlist it does not
\* warn; and the empty watchlist neither keeps the socket from being created
\* and opened nor closes it nor ends the process: messages are handled on it
\* as on any other.
C26_EmptyWatchlistWarns ==
  /\ [][(wsState = "connecting" /\ wsState' # "errored") =>
          /\ wsState' = "open"
          /\ pc' = pc
          /\ exitCode' = exitCode
          /\ NoWatchlist =>
               /\ warnings' = Append(warnings, "no watchlists configured")
               /\ sent' = sent \o <<SetOptionsMsg(env), GetStateMsg>>
          /\ ~NoWatchlist => warnings' = warnings]_vars
  /\ [](/\ Cardinality(WatchlistWarnings) <= 1
        /\ WatchlistWarnings # {} => NoWatchlist
        /\ (NoWatchlist /\ wsState = "open") =>
             Cardinality(WatchlistWarnings) = 1)
  /\ [](NoWatchlist =>
          /\ pc = "running" => wsCreated = 1
          /\ exitCode = 1 => wsCreated = 0
          /\ (wsState = "open" /\ Len(received) < MaxMsgs) =>
               \A raw \in SessionMessages : ENABLED WsMessage(raw))
  /\ [][(NoWatchlist /\ wsState' = "closed" /\ wsState # "closed") =>
          (handlers' = handlers /\ sent' = sent /\ warnings' = warnings)]_vars

\* Without any watchlist the socket was opened with one warning, setOptions
\* and getState, and a message was handled on it afterwards.
C26_Witness ==
  /\ NoWatchlist
  /\ wsState = "open"
  /\ sent = <<SetOptionsMsg(env), GetStateMsg>>
  /\ warnings = <<"no watchlists configured">>
  /\ Len(received) = 1

\* ------------------------------------------------------------ slot events
NoLog == [logged |-> "nothing"]

\* Variant: the slot branch does not log the status.
SlotBranchWithoutStatus(decoded) ==
  [logged |-> "slot",
   slot |-> Field(decoded, "slot"),
   parent |-> Field(decoded, "parent"),
   status |-> [typeof |-> "undefined", val |-> ""]]

\* The slot branch of the 'message' handler: what it logs.
SlotBranch(decoded) ==
  [logged |-> "slot",
   slot |-> Field(decoded, "slot"),
   parent |-> Field(decoded, "parent"),
   status |-> Field(decoded, "status")]

\* Objects with any of: a type, a slot of some type, a status, a parent, an
\* op; and payloads that are not objects.
SlotTypeParts == {<< >>} \cup {"type" :> v : v \in {Str("slot"), Str("status"), Num("7")}}

SlotValueParts ==
  {<< >>} \cup {"slot" :> v : v \in {Num("100"), Num("0"), Str("100"),
                                      Typed("object"), Typed("boolean")}}

SlotStatusParts == {<< >>} \cup {"status" :> Str(v) : v \in {"confirmed", "processed"}}

SlotParentParts == {<< >>} \cup {"parent" :> Num("99")}

SlotOpParts == {<< >>} \cup {"op" :> Str("renewal_reminder")}

SlotMessages ==
  {Raw(Obj(a @@ b @@ c @@ d @@ e)) :
     a \in SlotTypeParts, b \in SlotValueParts, c \in SlotStatusParts,
     d \in SlotParentParts, e \in SlotOpParts}
    \cup {Raw([kind |-> "array"]), NotJson}

SlotInit ==
  /\ env = PureEnv
  /\ Start
  /\ fnArg \in {[fn |-> "slot", raw |-> m] : m \in SlotMessages}
  /\ fnResult = NoResult

\* The 'message' handler on one payload: the outcome of the chain and, when
\* the chain reaches the slot branch, what that branch logs.
HandleSlot ==
  /\ fnArg.fn = "slot"
  /\ fnResult = NoResult
  /\ LET decoded == safeJsonParse(fnArg.raw)
         outcome == Classify(decoded)
     IN fnResult' = [fn |-> "slot", outcome |-> outcome,
                     log |-> IF outcome = "slot" THEN SlotBranch(decoded) ELSE NoLog]
  /\ UNCHANGED <<fnArg, env, pc, exitCode, schemaRequests, schemaResp, wsCreated,
                 wsState, currentToken, sent, received, dispatched, handlers, warnings>>

SlotSpec == SlotInit /\ [][HandleSlot]_vars

SlotScenario ==
  Raw(Obj([type |-> Str("slot"), slot |-> Num("100"), status |-> Str("confirmed")]))

UndefinedField == [typeof |-> "undefined", val |-> ""]

\* The property of the payload, or undefined when the payload lacks it.
Optional(raw, name) ==
  IF name \in DOMAIN raw.value.fields THEN raw.value.fields[name] ELSE UndefinedField

\* C27: a payload with type "slot" and a slot of type number is a slot event
\* carrying that slot, with status and parent as in the payload or undefined
\* when absent; the scenario payload gives slot 100, status confirmed and
\* parent undefined; a payload with type "slot" whose slot is absent or not
\* a number is not a slot event.
C27_SlotEvent ==
  (fnResult.fn = "slot" /\ IsJsonObject(fnArg.raw)
     /\ HasTyped(fnArg.raw, "type", "string")
     /\ fnArg.raw.value.fields["type"].val = "slot") =>
    /\ HasTyped(fnArg.raw, "slot", "number") =>
         /\ fnResult.outcome = "slot"
         /\ fnResult.log.logged = "slot"
         /\ fnResult.log.slot = fnArg.raw.value.fields["slot"]
         /\ fnResult.log.status = Optional(fnArg.raw, "status")
         /\ fnResult.log.parent = Optional(fnArg.raw, "parent")
    /\ ~HasTyped(fnArg.raw, "slot", "number") =>
         /\ fnResult.outcome # "slot"
         /\ fnResult.log = NoLog
    /\ fnArg.raw = SlotScenario =>
         fnResult.log = [logged |-> "slot", slot |-> Num("100"),
                         status |-> Str("confirmed"), parent |-> UndefinedField]

\* The scenario payload was classified and logged as a slot event without a
\* parent.
C27_Witness ==
  /\ fnArg.fn = "slot"
  /\ fnArg.raw = SlotScenario
  /\ fnResult.fn = "slot"
  /\ fnResult.outcome = "slot"
  /\ fnResult.log.parent.typeof = "undefined"

\* ------------------------------------------------------ renewal endpoint
\* The constant renewUrl of main(), built once the schema is acquired from
\* the stream id of the schema body and the version of the schema path.
renewUrl ==
  buildRenewUrl(HTTP_BASE, schemaResp.body.value.streamId,
                parseSchemaVersion(env.X402_SCHEMA_PATH))

\* The POST a suspended renewal has issued: httpRenew through the paying
\* fetch, inbandRenewChallenge through the plain one.
RenewRequest(i) ==
  [url |-> renewUrl, method |-> "POST",
   body |-> [token |-> handlers[i].oldToken],
   paying |-> handlers[i].stage = "httpFetch"]

Segments == <<"schema", "/", "stream", "/", "mempool-sniff">>

\* Schema paths: relative with v1, with v2, without a version, with v2
\* further down and with v2 in the query only; full URLs with v2 in the
\* path, in the query only, and with the scheme in upper case; a URL that
\* does not parse.
SchemaPaths ==
  {DefaultSchemaPath,
   SchemaPath("", TRUE, <<"/", "v2", "/">> \o Segments, << >>),
   SchemaPath("", TRUE, <<"/">> \o Segments, << >>),
   SchemaPath("", TRUE, <<"/", "api", "/", "v2", "/">> \o Segments, << >>),
   SchemaPath("https://", TRUE, <<"/", "v2", "/">> \o Segments, << >>),
   SchemaPath("http://", TRUE, << >>, <<"?", "next=", "/", "v2", "/">>),
   SchemaPath("HTTPS://", TRUE, <<"/", "v2", "/">> \o Segments, << >>),
   SchemaPath("https://", FALSE, <<"/", "v2", "/">> \o Segments, << >>)}

UrlEnvs ==
  {[SVM_PRIVATE_KEY |-> "key", RENEW_METHOD |-> m, WATCH_ACCOUNTS |-> <<"w1">>,
    WATCH_PROGRAMS |-> << >>, EVENT_FORMAT |-> "enhanced",
    X402_SCHEMA_PATH |-> path] : m \in {"http", "inband"}, path \in SchemaPaths}

UrlInit ==
  /\ env \in UrlEnvs
  /\ Start
  /\ fnArg = NoArg
  /\ fnResult = NoResult

UrlSpec == UrlInit /\ [][Next]_vars

\* The schema path is a URL of its own, whatever the case of its scheme.
IsFullUrl(schemaPath) == schemaPath.scheme # "" /\ schemaPath.hostOk

\* The v1 or v2 prefix of the schema path (of its path component when it is
\* a full URL), v1 when there is none.
PrefixVersion(schemaPath) ==
  LET text == IF IsFullUrl(schemaPath) THEN schemaPath.path ELSE PathText(schemaPath)
  IN IF Len(text) >= 3 /\ text[1] = "/" /\ text[2] \in {"v1", "v2"} /\ text[3] = "/"
     THEN text[2] ELSE "v1"

\* C28: once the schema is acquired the renewal endpoint is
\* {base}/{version}/renew/stream/{id}, with the stream id of the schema body
\* and the version prefix of the schema path; it does not change, and every
\* renewal request of either strategy is addressed to it.
C28_RenewEndpoint ==
  /\ [](pc = "running" =>
          LET endpoint ==
                [origin |-> HTTP_BASE,
                 path |-> <<"/", PrefixVersion(env.X402_SCHEMA_PATH), "/", "renew", "/",
                            "stream", "/", schemaResp.body.value.streamId>>]
          IN /\ renewUrl = endpoint
             /\ \A i \in 1..Len(handlers) :
                  handlers[i].stage \in {"httpFetch", "inbandFetch"} =>
                    RenewRequest(i).url = endpoint)
  /\ [][pc = "running" => renewUrl' = renewUrl]_vars

====
